---- MODULE Spec2Model ----
\* A model of the DOCX-to-Markdown plugin converter
\* (markitdown_custom_docx_plugin/_plugin.py): the accepts predicate, the
\* convert pipeline, the descendant walk of __convert_to_markdown, the table
\* classifier with its two renderers, and the image inliner.
\*
\* Python strings are sequences of one-character strings, so that lower(),
\* startswith, endswith, split, "in" and strip are computed character by
\* character. A parsed HTML tree is a sequence of node records, each naming
\* its parent (0 is the container: the body, or the soup of a re-parsed
\* table); siblings are in document order by ascending index.
EXTENDS Integers, Sequences, FiniteSets, TLC

VARIABLES pc, arg, ret, streamRead, html, cur, markdown, emitted, error, result

vars == <<pc, arg, ret, streamRead, html, cur, markdown, emitted, error, result>>

\* ------------------------------------------------------------------ bounds

\* Largest number of nodes of an enumerated body tree.
MaxNodes == 4
\* Largest number of top-level elements of a body built from the catalogue.
MaxFlat == 2
\* Largest number of rows of an enumerated table.
MaxRows == 2

\* ------------------------------------------------------------ Python values

\* Python's None, where a string is expected.
None == <<"None">>

UpperLetters == <<"A", "B", "C", "D", "E", "F", "G", "H", "I", "J", "K", "L", "M", "N", "O", "P", "Q", "R", "S", "T", "U", "V", "W", "X", "Y", "Z">>

LowerLetters == <<"a", "b", "c", "d", "e", "f", "g", "h", "i", "j", "k", "l", "m", "n", "o", "p", "q", "r", "s", "t", "u", "v", "w", "x", "y", "z">>

\* str.lower() on one character.
LowerChar(c) ==
    IF \E i \in 1..Len(UpperLetters) : UpperLetters[i] = c
    THEN LowerLetters[CHOOSE i \in 1..Len(UpperLetters) : UpperLetters[i] = c]
    ELSE c

\* str.lower()
Lower(s) == [i \in 1..Len(s) |-> LowerChar(s[i])]

\* str.startswith(prefix)
StartsWith(s, prefix) ==
    /\ Len(prefix) <= Len(s)
    /\ SubSeq(s, 1, Len(prefix)) = prefix

\* str.endswith(suffix)
EndsWith(s, suffix) ==
    /\ Len(suffix) <= Len(s)
    /\ SubSeq(s, Len(s) - Len(suffix) + 1, Len(s)) = suffix

\* sub in s
Contains(s, sub) ==
    \E i \in 1..(Len(s) - Len(sub) + 1) : SubSeq(s, i, i + Len(sub) - 1) = sub

\* s.split(".")[-1]: what follows the last "." of s, all of s when it has none.
SplitDotLast(s) ==
    LET dots == {i \in 1..Len(s) : s[i] = "."}
    IN  IF dots = {} THEN s
        ELSE SubSeq(s, (CHOOSE i \in dots : \A j \in dots : j <= i) + 1, Len(s))

IsSpace(c) == c \in {" ", "\n", "\t"}

\* str.strip()
Strip(s) ==
    LET solid == {i \in 1..Len(s) : ~IsSpace(s[i])}
    IN  IF solid = {} THEN <<>>
        ELSE SubSeq(s, CHOOSE i \in solid : \A j \in solid : i <= j,
                       CHOOSE i \in solid : \A j \in solid : j <= i)

\* x or "" for an optional string x.
OrEmpty(x) == IF x = None THEN <<>> ELSE x

\* ----------------------------------------------------------------- accepts

ACCEPTED_MIME_TYPE_PREFIXES ==
    << <<"a", "p", "p", "l", "i", "c", "a", "t", "i", "o", "n", "/", "v", "n", "d", ".", "o", "p", "e", "n", "x", "m", "l", "f", "o", "r", "m", "a", "t", "s", "-", "o", "f", "f", "i", "c", "e", "d", "o", "c", "u", "m", "e", "n", "t", ".", "w", "o", "r", "d", "p", "r", "o", "c", "e", "s", "s", "i", "n", "g", "m", "l", ".", "d", "o", "c", "u", "m", "e", "n", "t">> >>

ACCEPTED_FILE_EXTENSIONS == << <<".", "d", "o", "c", "x">> >>

\* accepts with the extension compared as given, not lowered.
accepts_CaseSensitive(stream_info) ==
    LET mimetype  == Lower(OrEmpty(stream_info.mimetype))
        extension == OrEmpty(stream_info.extension)
    IN  \/ \E i \in 1..Len(ACCEPTED_FILE_EXTENSIONS) :
              extension = ACCEPTED_FILE_EXTENSIONS[i]
        \/ \E i \in 1..Len(ACCEPTED_MIME_TYPE_PREFIXES) :
              StartsWith(mimetype, ACCEPTED_MIME_TYPE_PREFIXES[i])

\* CustomDocxConverter.accepts
accepts(stream_info) ==
    LET mimetype  == Lower(OrEmpty(stream_info.mimetype))
        extension == Lower(OrEmpty(stream_info.extension))
    IN  \/ \E i \in 1..Len(ACCEPTED_FILE_EXTENSIONS) :
              extension = ACCEPTED_FILE_EXTENSIONS[i]
        \/ \E i \in 1..Len(ACCEPTED_MIME_TYPE_PREFIXES) :
              StartsWith(mimetype, ACCEPTED_MIME_TYPE_PREFIXES[i])

\* --------------------------------------------------------- the HTML tree

TEXT == "#text"

\* A tag node and a text node (bs4's Tag and NavigableString).
Tag(name, attrs, parent) == [name |-> name, attrs |-> attrs, text |-> <<>>, parent |-> parent]

NavigableString(text, parent) == [name |-> TEXT, attrs |-> {}, text |-> text, parent |-> parent]

\* isinstance(element, Tag)
IsTag(t, i) == t[i].name # TEXT

\* Attributes are a set of <<name, value>> pairs with distinct names.
\* element.get(name): the value, or None.
Get(attrs, name) ==
    IF \E p \in attrs : p[1] = name
    THEN (CHOOSE p \in attrs : p[1] = name)[2]
    ELSE None

\* set(cell.attrs)
AttrNames(attrs) == {p[1] : p \in attrs}

\* Truthiness of an optional string.
Truthy(x) == x # None /\ x # <<>>

Indices(t) == [i \in 1..Len(t) |-> i]

Range(seq) == {seq[k] : k \in 1..Len(seq)}

\* Tag.contents of node p (of the container when p = 0), in document order.
Contents(t, p) == SelectSeq(Indices(t), LAMBDA i : t[i].parent = p)

\* PageElement.next_sibling (0 for none).
NextSibling(t, i) ==
    LET later == {j \in (i + 1)..Len(t) : t[j].parent = t[i].parent}
    IN  IF later = {} THEN 0 ELSE CHOOSE j \in later : \A k \in later : j <= k

\* The element after i's subtree: the next sibling of the nearest of i and its
\* ancestors that has one (0 past the end of the container).
RECURSIVE NextAfter(_, _)
NextAfter(t, i) ==
    IF i = 0 THEN 0
    ELSE IF NextSibling(t, i) # 0 THEN NextSibling(t, i)
    ELSE NextAfter(t, t[i].parent)

\* next_element that does not descend into the children.
NextElement_SkipChildren(t, i) == NextAfter(t, i)

\* PageElement.next_element: the first child, else what follows the subtree.
NextElement(t, i) ==
    IF Contents(t, i) # <<>> THEN Contents(t, i)[1] ELSE NextAfter(t, i)

\* j lies strictly below root.
RECURSIVE IsBelow(_, _, _)
IsBelow(t, j, root) ==
    /\ j # 0
    /\ \/ t[j].parent = root
       \/ IsBelow(t, t[j].parent, root)

RECURSIVE DescendantsFrom(_, _, _)
DescendantsFrom(t, root, c) ==
    IF c = 0 \/ ~IsBelow(t, c, root) THEN <<>>
    ELSE <<c>> \o DescendantsFrom(t, root, NextElement(t, c))

\* Tag.descendants: next_element followed from the first child until the
\* subtree of root is left.
Descendants(t, root) ==
    IF Contents(t, root) = <<>> THEN <<>>
    ELSE DescendantsFrom(t, root, Contents(t, root)[1])

\* element.find_all(names): the descendant tags with one of the names.
find_all(t, e, names) == SelectSeq(Descendants(t, e), LAMBDA j : t[j].name \in names)

RECURSIVE Concat(_)
Concat(ss) == IF ss = <<>> THEN <<>> ELSE Head(ss) \o Concat(Tail(ss))

\* get_text with the strings concatenated first and the whole stripped.
get_text_strip_StripWhole(t, e) ==
    Strip(Concat([k \in 1..Len(SelectSeq(Descendants(t, e), LAMBDA j : ~IsTag(t, j))) |->
                    t[SelectSeq(Descendants(t, e), LAMBDA j : ~IsTag(t, j))[k]].text]))

\* element.get_text(strip=True): every descendant string stripped on its own,
\* the empty ones dropped, the rest concatenated with no separator.
get_text_strip(t, e) ==
    LET strings == SelectSeq(Descendants(t, e), LAMBDA j : ~IsTag(t, j))
    IN  Concat([k \in 1..Len(strings) |-> Strip(t[strings[k]].text)])

\* BeautifulSoup(str(element), "html.parser"): the subtree of element as a
\* tree of its own, element the only child of the new container.
ParseStr(t, element) ==
    LET order == <<element>> \o Descendants(t, element)
        pos(j) == CHOOSE k \in 1..Len(order) : order[k] = j
    IN  [k \in 1..Len(order) |->
            [t[order[k]] EXCEPT !.parent = IF k = 1 THEN 0 ELSE pos(t[order[k]].parent)]]

\* -------------------------------------------------- outcomes and fragments

Return(v) == [k |-> "return", v |-> v]

Raise(e) == [k |-> "raise", e |-> e]

\* ------------------------------------------------------------------ tables

\* MarkItDown().convert(table_content).text_content: the host's own
\* HTML-to-Markdown conversion of the table, kept opaque.
MarkItDownConvert(table_content) == [kind |-> "markdown", of |-> table_content]

\* CustomDocxConverter.__process_simple_table
process_simple_table(table_content) == Return(MarkItDownConvert(table_content))

\* soup.find("table")
FindTable(soup) == find_all(soup, 0, {"table"})[1]

\* The cells the two loops over a table reach: for every child of the table,
\* the rows found below it, and for every such row the cells found below it.
CellsReached(table_content, elements) ==
    UNION { Range(find_all(table_content, row, {"td", "th"})) :
              row \in UNION { Range(find_all(table_content, element, {"tr"})) :
                                element \in Range(elements) } }

\* CustomDocxConverter.__process_complicated_table: every child of the table
\* is asked for its rows (a string child has no find_all), and the cells
\* reached keep only colspan and rowspan.
process_complicated_table(table_content) ==
    LET elements == Contents(table_content, FindTable(table_content))
        cells    == CellsReached(table_content, elements)
    IN  IF \E i \in 1..Len(elements) : ~IsTag(table_content, elements[i])
        THEN Raise("AttributeError")
        ELSE Return([kind |-> "html",
                     of |-> [c \in 1..Len(table_content) |->
                               IF c \in cells
                               THEN [table_content[c] EXCEPT
                                       !.attrs = {p \in @ : p[1] \in {"colspan", "rowspan"}}]
                               ELSE table_content[c]]])

\* {"colspan", "rowspan"} <= set(cell.attrs) for some cell of some row found
\* below element.
HasSpanningCell(t, element) ==
    \E cell \in CellsReached(t, <<element>>) :
        {"colspan", "rowspan"} \subseteq AttrNames(t[cell].attrs)

\* The loop of __process_table over the table's children, in order.
RECURSIVE process_table_loop(_, _)
process_table_loop(table_content, elements) ==
    IF elements = <<>> THEN process_simple_table(table_content)
    ELSE IF ~IsTag(table_content, Head(elements)) THEN Raise("AttributeError")
    ELSE IF HasSpanningCell(table_content, Head(elements))
         THEN process_complicated_table(table_content)
    ELSE process_table_loop(table_content, Tail(elements))

\* CustomDocxConverter.__process_table
process_table(table_content) ==
    process_table_loop(table_content, Contents(table_content, FindTable(table_content)))

\* ------------------------------------------------------------------ images

\* The files of the resource folder: <<path, bytes>>.
FileSystem == { << <<"m", ".", "f", "l", "d", "/", "p", ".", "p", "n", "g">>, <<137, 80, 78, 71>> >>,
                << <<"m", ".", "f", "l", "d", "/", "p", ".", "P", "N", "G">>, <<137, 80, 78>> >> }

Base64Alphabet == <<"A", "B", "C", "D", "E", "F", "G", "H", "I", "J", "K", "L", "M", "N", "O", "P", "Q", "R", "S", "T", "U", "V", "W", "X", "Y", "Z", "a", "b", "c", "d", "e", "f", "g", "h", "i", "j", "k", "l", "m", "n", "o", "p", "q", "r", "s", "t", "u", "v", "w", "x", "y", "z", "0", "1", "2", "3", "4", "5", "6", "7", "8", "9", "+", "/">>

B64(n) == Base64Alphabet[n + 1]

\* base64.b64encode(bytes).decode("utf-8")
RECURSIVE b64encode(_)
b64encode(b) ==
    IF Len(b) = 0 THEN <<>>
    ELSE IF Len(b) = 1
         THEN <<B64(b[1] \div 4), B64((b[1] % 4) * 16), "=", "=">>
    ELSE IF Len(b) = 2
         THEN <<B64(b[1] \div 4), B64((b[1] % 4) * 16 + b[2] \div 16),
                B64((b[2] % 16) * 4), "=">>
    ELSE <<B64(b[1] \div 4), B64((b[1] % 4) * 16 + b[2] \div 16),
           B64((b[2] % 16) * 4 + b[3] \div 64), B64(b[3] % 64)>>
         \o b64encode(SubSeq(b, 4, Len(b)))

\* CustomDocxConverter.__process_image
process_image(image_path, image_extension) ==
    IF \E f \in FileSystem : f[1] = image_path
    THEN Return([kind |-> "image", ext |-> image_extension,
                 data |-> b64encode((CHOOSE f \in FileSystem : f[1] = image_path)[2])])
    ELSE Raise("FileNotFoundError")

\* A call self.__process_image(*args): the method has two required
\* positional parameters besides self.
call_process_image(args) ==
    IF Len(args) # 2 THEN Raise("TypeError")
    ELSE process_image(args[1], args[2])

\* ------------------------------------------------------------- the walker

\* What visiting one element of soup.body.descendants does: the fragments it
\* appends to the list (none or one), or the exception it raises.
Visit(t, element) ==
    IF ~IsTag(t, element) THEN Return(<<>>)
    ELSE IF t[element].name = "span"
         THEN Return(<<[kind |-> "text", s |-> get_text_strip(t, element)]>>)
    ELSE IF t[element].name = "table"
         THEN LET r == process_table(ParseStr(t, element))
              IN  IF r.k = "raise" THEN r ELSE Return(<<r.v>>)
    ELSE IF t[element].name = "img" /\ Truthy(Get(t[element].attrs, "src"))
         THEN LET src == Get(t[element].attrs, "src")
              IN  IF Contains(src, <<".", "f", "l", "d", "/">>)
                  THEN LET r == call_process_image(<<src>>)
                       IN  IF r.k = "raise" THEN r ELSE Return(<<r.v>>)
                  ELSE Return(<<>>)
    ELSE IF t[element].name = "a" /\ Truthy(Get(t[element].attrs, "href"))
         THEN LET href == Get(t[element].attrs, "href")
                  extension == Lower(SplitDotLast(href))
              IN  IF /\ Contains(href, <<".", "f", "l", "d", "/">>)
                     /\ \E suffix \in {<<".", "p", "n", "g">>, <<".", "j", "p", "g">>,
                                       <<".", "j", "p", "e", "g">>, <<".", "g", "i", "f">>} :
                            EndsWith(extension, suffix)
                  THEN LET r == call_process_image(<<href, extension>>)
                       IN  IF r.k = "raise" THEN r ELSE Return(<<r.v>>)
                  ELSE Return(<<>>)
    ELSE Return(<<>>)

\* One fragment as the characters it puts into the joined string: a text run
\* is its characters, a rendered table or image is one opaque item.
Chars(fragment) ==
    IF fragment.kind = "text"
    THEN [i \in 1..Len(fragment.s) |-> [ch |-> fragment.s[i]]]
    ELSE <<fragment>>

\* "\n\n".join(markdown)
Join(fragments) ==
    Concat([i \in 1..Len(fragments) |->
              IF i = 1 THEN Chars(fragments[i])
              ELSE <<[ch |-> "\n"], [ch |-> "\n"]>> \o Chars(fragments[i])])

\* ------------------------------------------------------------------ inputs

\* The stream infos accepts is asked about.
Extensions ==
    { None, <<>>, <<".", "d", "o", "c", "x">>, <<".", "D", "O", "C", "X">>,
      <<".", "D", "o", "c", "X">>, <<".", "d", "o", "c">>,
      <<".", "d", "o", "c", "x", "x">>, <<"d", "o", "c", "x">> }

MimeTypes ==
    { None, <<>>, ACCEPTED_MIME_TYPE_PREFIXES[1],
      ACCEPTED_MIME_TYPE_PREFIXES[1] \o <<";", " ", "f", "o", "o", "=", "b", "a", "r">>,
      <<"A">> \o Tail(ACCEPTED_MIME_TYPE_PREFIXES[1]),
      SubSeq(ACCEPTED_MIME_TYPE_PREFIXES[1], 1, Len(ACCEPTED_MIME_TYPE_PREFIXES[1]) - 1),
      <<"x">> \o ACCEPTED_MIME_TYPE_PREFIXES[1],
      <<"t", "e", "x", "t", "/", "p", "l", "a", "i", "n">> }

Charsets == { None, <<"u", "t", "f", "-", "8">>, <<"l", "a", "t", "i", "n", "-", "1">> }

\* The bytes of the stream: ASCII only, or with a byte that is no UTF-8.
StreamBytes == { <<80, 75>>, <<80, 255>> }

\* bytes.decode(encoding) succeeds.
Decodes(bytes, encoding) ==
    \/ encoding = <<"l", "a", "t", "i", "n", "-", "1">>
    \/ \A i \in 1..Len(bytes) : bytes[i] < 128

\* Text nodes and tags the enumerated body trees are made of.
CoreLabels ==
    { NavigableString(<<" ", "a", " ">>, 0), NavigableString(<<"b">>, 0),
      Tag("span", {}, 0), Tag("div", {}, 0) }

\* The trees of exactly n nodes over CoreLabels, numbered level by level (a
\* node's parent is never before its predecessor's parent), with no two
\* adjacent text siblings: a parser yields one string for adjacent text.
RECURSIVE CoreTrees(_)
CoreTrees(n) ==
    IF n = 0 THEN { <<>> }
    ELSE UNION { { Append(t, [lab EXCEPT !.parent = p]) :
                     <<p, lab>> \in
                       { x \in (0..Len(t)) \X CoreLabels :
                           /\ x[1] = 0 \/ IsTag(t, x[1])
                           /\ t # <<>> => x[1] >= t[Len(t)].parent
                           /\ ~ /\ x[2].name = TEXT
                                /\ Contents(t, x[1]) # <<>>
                                /\ ~IsTag(t, Contents(t, x[1])[Len(Contents(t, x[1]))]) } }
               : t \in CoreTrees(n - 1) }

\* item grafted after the nodes of t, its roots becoming children of node p.
Graft(t, item, p) ==
    t \o [k \in 1..Len(item) |->
            [item[k] EXCEPT !.parent = IF @ = 0 THEN p ELSE @ + Len(t)]]

Path(name) ==
    <<"m", ".", "f", "l", "d", "/">> \o name

\* Top-level elements a catalogue body is made of: spans, images and links
\* of every dispatch case, and a table holding only white space.
Catalogue ==
    { <<Tag("span", {}, 0), NavigableString(<<"b">>, 1)>>,
      <<Tag("img", {}, 0)>>,
      <<Tag("img", {<<"src", <<>>>>}, 0)>>,
      <<Tag("img", {<<"src", <<"h", "/", "p", ".", "p", "n", "g">>>>}, 0)>>,
      <<Tag("img", {<<"src", Path(<<"p", ".", "p", "n", "g">>)>>}, 0)>>,
      <<Tag("img", {<<"src", Path(<<"q", ".", "p", "n", "g">>)>>}, 0)>>,
      <<Tag("a", {}, 0), NavigableString(<<"b">>, 1)>>,
      <<Tag("a", {<<"href", <<"p", ".", "h", "t", "m", "l">>>>}, 0), NavigableString(<<"b">>, 1)>>,
      <<Tag("a", {<<"href", Path(<<"p", ".", "P", "N", "G">>)>>}, 0), NavigableString(<<"b">>, 1)>>,
      <<Tag("a", {<<"href", Path(<<"q", ".", "p", "n", "g">>)>>}, 0)>>,
      <<Tag("table", {}, 0), NavigableString(<<" ">>, 1)>> }

RECURSIVE FlatTrees(_)
FlatTrees(n) ==
    IF n = 0 THEN { <<>> }
    ELSE { Graft(t, item, 0) : t \in FlatTrees(n - 1), item \in Catalogue }

Two == <<"2">>

BothSpans == {<<"rowspan", Two>>, <<"colspan", Two>>}

Styled == {<<"style", <<"s">>>>}

\* A cell with no content, and the cells of a row.
Cell(name, attrs) == <<Tag(name, attrs, 0)>>

\* A cell holding a span, and a cell holding a table of its own whose only
\* cell spans rows and columns.
SpanCell == <<Tag("td", {}, 0), Tag("span", {}, 1), NavigableString(<<"b">>, 2)>>

TableCell ==
    <<Tag("td", Styled, 0), Tag("table", {}, 1), Tag("tr", {}, 2), Tag("td", BothSpans \cup Styled, 3)>>

RECURSIVE GraftAll(_, _, _)
GraftAll(t, items, p) ==
    IF items = <<>> THEN t
    ELSE GraftAll(Graft(t, Head(items), p), Tail(items), p)

\* A tr that is a child of the table, and a tr wrapped in a tbody of its own.
DirectRow(cells) == GraftAll(<<Tag("tr", {}, 0)>>, cells, 1)

WrappedRow(cells) == GraftAll(<<Tag("tbody", {}, 0), Tag("tr", {}, 1)>>, cells, 2)

\* What a table is given row by row: direct and wrapped rows with cells of
\* no span, one span, both spans, other attributes, and content; and white
\* space between rows.
Rows ==
    { DirectRow(<<Cell("td", {})>>),
      DirectRow(<<Cell("th", BothSpans)>>),
      DirectRow(<<Cell("td", Styled), Cell("td", BothSpans \cup Styled)>>),
      DirectRow(<<SpanCell>>),
      DirectRow(<<TableCell>>),
      WrappedRow(<<Cell("td", {<<"rowspan", Two>>}), Cell("td", {<<"colspan", Two>>})>>),
      WrappedRow(<<Cell("th", BothSpans)>>),
      WrappedRow(<<Cell("td", Styled), Cell("td", BothSpans \cup Styled)>>),
      WrappedRow(<<Cell("td", BothSpans \cup Styled), Cell("td", Styled)>>),
      <<NavigableString(<<" ">>, 0)>> }

RECURSIVE TablesOf(_)
TablesOf(n) ==
    IF n = 0 THEN { <<Tag("table", {}, 0)>> }
    ELSE { Graft(t, row, 1) : t \in TablesOf(n - 1), row \in Rows }

Hello == <<Tag("span", {}, 0), NavigableString(<<"H", "e", "l", "l", "o">>, 1)>>

World == <<Tag("span", {}, 0), NavigableString(<<"W", "o", "r", "l", "d">>, 1)>>

\* Bodies of the shape span, table, span.
TableTrees ==
    UNION { { Graft(Graft(Hello, table, 0), World, 0) : table \in TablesOf(n) } : n \in 0..MaxRows }

Trees ==
    UNION { CoreTrees(n) : n \in 0..MaxNodes }
    \cup UNION { FlatTrees(n) : n \in 0..MaxFlat }
    \cup TableTrees

\* The HTML the DOCX-to-HTML step can hand over: its elements wrapped in a
\* body element, or a bare fragment with no body.
Documents == { [body |-> b, nodes |-> t] : b \in BOOLEAN, t \in Trees }

\* ----------------------------------------------------------------- actions

\* No call is in progress: the converter keeps no state of its own.
Init ==
    /\ pc = "idle"
    /\ arg = <<>>
    /\ ret = <<>>
    /\ streamRead = FALSE
    /\ html = <<>>
    /\ cur = 0
    /\ markdown = <<>>
    /\ emitted = <<>>
    /\ error = "none"
    /\ result = <<>>

\* A call of accepts(file_stream, stream_info), up to its return.
Accepts ==
    /\ pc = "idle"
    /\ \E extension \in Extensions, mimetype \in MimeTypes :
         LET stream_info == [extension |-> extension, mimetype |-> mimetype]
         IN  /\ arg' = <<stream_info>>
             /\ ret' = <<accepts(stream_info)>>
    /\ pc' = "accepted"
    /\ UNCHANGED <<streamRead, html, cur, markdown, emitted, error, result>>

\* convert, lines 153-154: the encoding is chosen, the stream read to its
\* end and decoded.
ConvertRead ==
    /\ pc = "idle"
    /\ \E charset \in Charsets, preferred \in Charsets \ {None}, bytes \in StreamBytes :
         LET encoding == IF Truthy(charset) THEN charset ELSE preferred
         IN  IF Decodes(bytes, encoding)
             THEN pc' = "decoded" /\ error' = error
             ELSE pc' = "raised" /\ error' = "UnicodeDecodeError"
    /\ streamRead' = TRUE
    /\ UNCHANGED <<arg, ret, html, cur, markdown, emitted, result>>

\* convert, line 155: the DOCX-to-HTML step returns HTML or raises.
ConvertToHtml ==
    /\ pc = "decoded"
    /\ \E r \in {Raise("ConversionError")} \cup {Return(d) : d \in Documents} :
         IF r.k = "raise"
         THEN pc' = "raised" /\ error' = r.e /\ html' = html
         ELSE pc' = "html" /\ error' = error /\ html' = <<r.v>>
    /\ UNCHANGED <<arg, ret, streamRead, cur, markdown, emitted, result>>

\* __convert_to_markdown, lines 54-56: the empty list, the parse, and the
\* start of the iteration over soup.body.descendants; soup.body is None when
\* the HTML has no body element.
WalkBegin ==
    /\ pc = "html"
    /\ IF ~html[1].body
       THEN pc' = "raised" /\ error' = "AttributeError" /\ cur' = cur
       ELSE /\ pc' = "walking"
            /\ error' = error
            /\ cur' = IF Contents(html[1].nodes, 0) = <<>> THEN 0
                      ELSE Contents(html[1].nodes, 0)[1]
    /\ markdown' = <<>>
    /\ emitted' = <<>>
    /\ UNCHANGED <<arg, ret, streamRead, html, result>>

\* __convert_to_markdown, lines 56-72: one element of the iteration.
WalkStep ==
    /\ pc = "walking"
    /\ cur # 0
    /\ LET r == Visit(html[1].nodes, cur)
       IN  IF r.k = "raise"
           THEN /\ pc' = "raised"
                /\ error' = r.e
                /\ UNCHANGED <<cur, markdown, emitted>>
           ELSE /\ markdown' = markdown \o r.v
                /\ emitted' = IF r.v = <<>> THEN emitted ELSE Append(emitted, cur)
                /\ cur' = NextElement(html[1].nodes, cur)
                /\ UNCHANGED <<pc, error>>
    /\ UNCHANGED <<arg, ret, streamRead, html, result>>

\* __convert_to_markdown, line 73, and convert, lines 156-161: the join and
\* the conversion result.
WalkReturn ==
    /\ pc = "walking"
    /\ cur = 0
    /\ result' = <<[title |-> None, markdown |-> Join(markdown)]>>
    /\ pc' = "done"
    /\ UNCHANGED <<arg, ret, streamRead, html, cur, markdown, emitted, error>>

\* The call is over (returned or raised) and its frame is gone.
Finish ==
    /\ pc \in {"accepted", "done", "raised"}
    /\ pc' = "idle"
    /\ arg' = <<>>
    /\ ret' = <<>>
    /\ streamRead' = FALSE
    /\ html' = <<>>
    /\ cur' = 0
    /\ markdown' = <<>>
    /\ emitted' = <<>>
    /\ error' = "none"
    /\ result' = <<>>

Next ==
    \/ Accepts
    \/ ConvertRead
    \/ ConvertToHtml
    \/ WalkBegin
    \/ WalkStep
    \/ WalkReturn
    \/ Finish

Spec == Init /\ [][Next]_vars

\* ------------------------------------------------- what the claims speak of

\* The nodes below p in depth-first pre-order, by recursion on the children:
\* each child in document order, followed by what lies below it.
RECURSIVE Preorder(_, _)
RECURSIVE PreorderOfAll(_, _)
Preorder(t, p) ==
    PreorderOfAll(t, SelectSeq(Indices(t), LAMBDA i : t[i].parent = p))

PreorderOfAll(t, children) ==
    IF children = <<>> THEN <<>>
    ELSE <<Head(children)>> \o Preorder(t, Head(children)) \o PreorderOfAll(t, Tail(children))

PosIn(seq, x) == CHOOSE k \in 1..Len(seq) : seq[k] = x

\* The tree being walked, and the nodes the walk has been through: those
\* before the current one in pre-order, all of them once the walk is over.
Nodes == html[1].nodes

Visited ==
    IF cur = 0 THEN Preorder(Nodes, 0)
    ELSE SubSeq(Preorder(Nodes, 0), 1, PosIn(Preorder(Nodes, 0), cur) - 1)

\* The text of a span as the strings below it, each stripped on its own.
StringsStripped(t, e) ==
    LET below == SelectSeq(Preorder(t, e), LAMBDA j : t[j].name = TEXT)
    IN  Concat([k \in 1..Len(below) |-> Strip(t[below[k]].text)])

\* The text of a span as all the text below it, stripped as a whole.
WholeStripped(t, e) ==
    LET below == SelectSeq(Preorder(t, e), LAMBDA j : t[j].name = TEXT)
    IN  Strip(Concat([k \in 1..Len(below) |-> t[below[k]].text]))

Spans(t) == SelectSeq(Preorder(t, 0), LAMBDA j : t[j].name = "span")

NoTableImageLink(t) == \A i \in 1..Len(t) : t[i].name \notin {"table", "img", "a"}

\* ---------------------------------------------------------------------- C1

DocxLetters == << {"."}, {"d", "D"}, {"o", "O"}, {"c", "C"}, {"x", "X"} >>

\* C1: accepts returns true exactly when the extension is ".docx" in any
\* letter case or the MIME type begins, in any letter case, with the OOXML
\* word-processing prefix; ".DOCX" with no MIME type is accepted, the prefix
\* followed by parameters is accepted, ".doc" with "text/plain" is not. The
\* call reads nothing from the stream and leaves nothing behind.
C1_AcceptsExtensionOrMimePrefix ==
    pc = "accepted" =>
      LET e == arg[1].extension
          m == arg[1].mimetype
          prefix == ACCEPTED_MIME_TYPE_PREFIXES[1]
          extOk  == /\ e # None
                    /\ Len(e) = Len(DocxLetters)
                    /\ \A i \in 1..Len(e) : e[i] \in DocxLetters[i]
          mimeOk == /\ m # None
                    /\ Len(m) >= Len(prefix)
                    /\ \A i \in 1..Len(prefix) : LowerChar(m[i]) = prefix[i]
      IN  /\ ret = <<extOk \/ mimeOk>>
          /\ (e = <<".", "D", "O", "C", "X">> /\ m = None) => ret = <<TRUE>>
          /\ m = prefix \o <<";", " ", "f", "o", "o", "=", "b", "a", "r">> => ret = <<TRUE>>
          /\ (e = <<".", "d", "o", "c">> /\ m = <<"t", "e", "x", "t", "/", "p", "l", "a", "i", "n">>)
                => ret = <<FALSE>>
          /\ streamRead = FALSE
          /\ html = <<>> /\ markdown = <<>> /\ result = <<>> /\ error = "none"

C1_Witness ==
    /\ pc = "accepted"
    /\ arg[1].extension = <<".", "D", "O", "C", "X">>
    /\ arg[1].mimetype = None
    /\ ret = <<TRUE>>

\* ---------------------------------------------------------------------- C2

C10_FragmentsInPreorder ==
    pc \in {"walking", "done"} =>
      LET order   == Preorder(Nodes, 0)
          visited == IF cur = 0 THEN order ELSE SubSeq(order, 1, PosIn(order, cur) - 1)
      IN  /\ cur # 0 => cur \in Range(order)
          /\ pc = "done" => cur = 0
          /\ Len(markdown) = Len(emitted)
          /\ Range(emitted) \subseteq Range(visited)
          /\ \A k \in 1..(Len(emitted) - 1) :
               PosIn(visited, emitted[k]) < PosIn(visited, emitted[k + 1])
          /\ \A i \in Range(emitted) : Nodes[i].name \in {"span", "table", "img", "a"}
          /\ \A i \in Range(visited) : Nodes[i].name = "span" => i \in Range(emitted)
          /\ \A k \in 1..Len(emitted) :
               Nodes[emitted[k]].name = "span" =>
                 markdown[k] = [kind |-> "text", s |-> StringsStripped(Nodes, emitted[k])]
          /\ pc = "done" => result[1].markdown = Join(markdown)

C10_Witness ==
    /\ pc = "done"
    /\ \E k \in 1..(Len(emitted) - 1) : emitted[k] > emitted[k + 1]
    /\ \E i \in Range(emitted) :
         /\ Nodes[i].name = "span"
         /\ Nodes[i].parent # 0
         /\ Nodes[Nodes[i].parent].name = "div"

\* ------------------------------------------ tables, as the claims read them

\* The rows of a table are the tr elements below it, its cells the td and th
\* elements below those rows.
RowsOf(t, table) == {r \in 1..Len(t) : t[r].name = "tr" /\ IsBelow(t, r, table)}

CellsOf(t, table) ==
    {c \in 1..Len(t) : /\ t[c].name \in {"td", "th"}
                       /\ \E r \in RowsOf(t, table) : IsBelow(t, c, r)}

\* Some cell of the table carries both a rowspan and a colspan.
Complicated(t, table) ==
    \E c \in CellsOf(t, table) : {"rowspan", "colspan"} \subseteq AttrNames(t[c].attrs)

\* ----------------------------------- images and links, as the claims read them

FLD == <<".", "f", "l", "d", "/">>

ImageExtensions ==
    {<<"p", "n", "g">>, <<"j", "p", "g">>, <<"j", "p", "e", "g">>, <<"g", "i", "f">>}

Readable(path) == \E f \in FileSystem : f[1] = path

BytesOf(path) == (CHOOSE f \in FileSystem : f[1] = path)[2]

\* An img element the walker is to hand to the Image Inliner.
ImageRef(t, i) ==
    /\ t[i].name = "img"
    /\ Get(t[i].attrs, "src") # None
    /\ Contains(Get(t[i].attrs, "src"), FLD)

\* A hyperlink the walker is to treat as an image reference.
ImageLink(t, i) ==
    /\ t[i].name = "a"
    /\ Get(t[i].attrs, "href") # None
    /\ Contains(Get(t[i].attrs, "href"), FLD)
    /\ Lower(SplitDotLast(Get(t[i].attrs, "href"))) \in ImageExtensions

\* The walk is under way or over, with a body to walk.
Walked == pc \in {"walking", "done"}

\* The walk raised at the element cur.
RaisedAtElement == pc = "raised" /\ html # <<>> /\ html[1].body /\ cur # 0

\* ---------------------------------------------------------------------- C3

\* C3: for a body that is a span, a Simple table and a span, the output is
\* three fragments joined by blank lines: the first span's text, the one
\* fragment of the table, the second span's text, whatever the cells hold.
C3_TableIsOneFragment ==
    ( /\ pc = "done"
      /\ Len(Contents(Nodes, 0)) = 3
      /\ Nodes[Contents(Nodes, 0)[1]].name = "span"
      /\ Nodes[Contents(Nodes, 0)[2]].name = "table"
      /\ Nodes[Contents(Nodes, 0)[3]].name = "span"
      /\ ~Complicated(Nodes, Contents(Nodes, 0)[2]) )
    => /\ Len(markdown) = 3
       /\ markdown[1] = [kind |-> "text", s |-> StringsStripped(Nodes, Contents(Nodes, 0)[1])]
       /\ markdown[2].kind = "markdown"
       /\ markdown[3] = [kind |-> "text", s |-> StringsStripped(Nodes, Contents(Nodes, 0)[3])]
       /\ result[1].markdown = Join(markdown)

\* ---------------------------------------------------------------------- C4

\* C4: a hyperlink whose href contains ".fld/" and whose extension after the
\* last ".", lowered, is png, jpg, jpeg or gif contributes an image fragment
\* made from the href and the lowered extension; any other hyperlink
\* contributes nothing.
C4_ImageLinkIsInlined ==
    Walked =>
      \A i \in Range(Visited) :
        Nodes[i].name = "a" =>
          IF ImageLink(Nodes, i) /\ Readable(Get(Nodes[i].attrs, "href"))
          THEN \E k \in 1..Len(emitted) :
                 /\ emitted[k] = i
                 /\ markdown[k] = [kind |-> "image",
                                   ext  |-> Lower(SplitDotLast(Get(Nodes[i].attrs, "href"))),
                                   data |-> b64encode(BytesOf(Get(Nodes[i].attrs, "href")))]
          ELSE ImageLink(Nodes, i) \/ i \notin Range(emitted)

\* ---------------------------------------------------------------------- C5

\* C5: an img whose src contains ".fld/" and names a readable file
\* contributes the image fragment holding the base64 of the file's bytes,
\* and does not make the walk raise; an img with no src, or whose src does
\* not contain ".fld/", contributes nothing.
C5_ImageIsInlined ==
    /\ Walked =>
         \A i \in Range(Visited) :
           Nodes[i].name = "img" =>
             IF ImageRef(Nodes, i)
             THEN Readable(Get(Nodes[i].attrs, "src")) =>
                    \E k \in 1..Len(emitted) :
                      /\ emitted[k] = i
                      /\ markdown[k].kind = "image"
                      /\ markdown[k].data = b64encode(BytesOf(Get(Nodes[i].attrs, "src")))
             ELSE i \notin Range(emitted)
    /\ RaisedAtElement =>
         ~(ImageRef(Nodes, cur) /\ Readable(Get(Nodes[cur].attrs, "src")))

\* ---------------------------------------------------------------------- C6

\* C6: HTML with no body element yields no fragments and an empty Markdown
\* body; the call does not end in an error.
C6_NoBodyIsEmpty ==
    (html # <<>> /\ ~html[1].body) =>
      /\ pc # "raised"
      /\ pc = "done" => result[1].markdown = <<>>

\* ---------------------------------------------------------------------- C7

\* An element handed to the Image Inliner whose file cannot be opened.
Unreadable(t, i) ==
    \/ ImageRef(t, i) /\ ~Readable(Get(t[i].attrs, "src"))
    \/ ImageLink(t, i) /\ ~Readable(Get(t[i].attrs, "href"))

\* C7: a convert call ends with the complete result (no title, all fragments
\* joined) or with an error and no result, never with part of the Markdown;
\* an image that cannot be opened ends it with that file error, so the walk
\* never gets past such an element.
C7_AllOrNothing ==
    /\ pc = "done" =>
         /\ result = <<[title |-> None, markdown |-> Join(markdown)]>>
         /\ error = "none"
         /\ cur = 0
    /\ pc # "done" => result = <<>>
    /\ pc = "raised" => error # "none"
    /\ Walked => \A i \in Range(Visited) : ~Unreadable(Nodes, i)
    /\ (RaisedAtElement /\ Unreadable(Nodes, cur)) => error = "FileNotFoundError"

\* ---------------------------------------------------------------------- C8

\* C8: a table is rendered by the Complicated strategy when some cell of some
\* row of it carries both rowspan and colspan, and by the Simple strategy
\* otherwise, whether its rows are children of the table or wrapped in a
\* section element.
C8_ClassifiedByCoOccurrence ==
    Walked =>
      \A k \in 1..Len(emitted) :
        Nodes[emitted[k]].name = "table" =>
          markdown[k].kind =
            IF Complicated(Nodes, emitted[k]) THEN "html" ELSE "markdown"

\* ---------------------------------------------------------------------- C9

\* C9: in the HTML returned for a Complicated table every cell of every row
\* has only the rowspan and colspan it had, with their values, and nothing
\* else of the table is changed.
C9_CellsKeepOnlySpans ==
    Walked =>
      \A k \in 1..Len(emitted) :
        (Nodes[emitted[k]].name = "table" /\ markdown[k].kind = "html") =>
          LET before == ParseStr(Nodes, emitted[k])
              after  == markdown[k].of
          IN  /\ Len(after) = Len(before)
              /\ \A c \in 1..Len(before) :
                   IF c \in CellsOf(before, 1)
                   THEN after[c] = [before[c] EXCEPT
                                      !.attrs = {p \in @ : p[1] \in {"rowspan", "colspan"}}]
                   ELSE after[c] = before[c]

====
